---- MODULE Spec2Model ----
(***************************************************************************)
(* A model of app/services/task_scheduler.py: the in-memory task registry, *)
(* the three housekeeping jobs, the job store and the two event listeners  *)
(* of TaskScheduler.  Times are seconds; the clock advances in steps of    *)
(* the shortest housekeeping period.                                       *)
(***************************************************************************)
EXTENDS Integers, FiniteSets, Sequences, TLC

VARIABLES
    tasks,      \* self.tasks: task id -> task dict (DOMAIN = registered ids)
    now,        \* datetime.utcnow(), in seconds
    started,    \* self._started
    jobs,       \* the scheduler's job store: job id -> job
    last,       \* the operation that acted last and what it was given
    calls,      \* how many operations the caller has made
    sg,         \* a housekeeping method, when it runs step by step on a pool thread
    running     \* the executor's count of invocations in flight, per job id

vars == <<tasks, now, started, jobs, last, calls, sg, running>>

----------------------------------------------------------------------------
(* Bounds of the model *)

\* clock steps explored by the full system
MaxTicks == 13
\* operations the caller makes in one run
MaxCalls == 4
\* clock steps during which the caller makes them
MaxCallTicks == 1
\* clock steps explored by the sweep-level specification
MaxSweepTicks == 2
\* clock steps explored by the job-store and the proposal specifications
MaxJobTicks == 4
\* recalculation cycles in a row
MaxCycles == 5

----------------------------------------------------------------------------
(* Program constants *)

DEADLINE_INTERVAL == 300
PRIORITY_INTERVAL == 600
AI_INTERVAL == 3600
HOUR == 3600
DAY == 24 * HOUR
DEFAULT_PRIORITY == 3
MIN_PRIORITY == 1
MAX_PRIORITY == 5
PAST_BUMP == -2
SOON_BUMP == -1
FAR_BUMP == 1

\* the clock's step: every trigger period is a multiple of it
Step == DEADLINE_INTERVAL

----------------------------------------------------------------------------
(* Tasks *)

TaskIds == {"t1", "t2"}

\* the value of a timestamp key that is not in the mapping
NoTime == 0 - 1
\* the value of a text key that is not in the mapping
NoKey == "absent"
\* Python's None stored under a key
None == "None"

\* A deadline is None, a datetime, an ISO string or a string that does not parse.
NoDeadline == [kind |-> "none", at |-> 0]
BadDeadline == [kind |-> "bad", at |-> 0]
At(n) == [kind |-> "dt", at |-> n]
Iso(n) == [kind |-> "iso", at |-> n]

\* task.setdefault("metadata", {}): the keys the housekeeping jobs write
EmptyMetadata ==
    [overdue_since |-> NoTime, ai_suggestions |-> NoKey,
     ai_suggestions_error |-> NoKey, executed_at |-> NoTime]

Task(st, p, d, m) == [status |-> st, priority |-> p, deadline |-> d, metadata |-> m]

Clamp(p) ==
    LET lo == IF p < MAX_PRIORITY THEN p ELSE MAX_PRIORITY
    IN  IF lo > MIN_PRIORITY THEN lo ELSE MIN_PRIORITY

----------------------------------------------------------------------------
(* _check_deadlines *)

\* the mutation under "# Mark overdue"
MarkOverdueNoStamp(t, n) == [t EXCEPT !.status = "overdue"]
MarkOverdue(t, n) ==
    [t EXCEPT !.status = "overdue", !.metadata.overdue_since = n]

\* one pass of the loop body over task t at time n
CheckDeadlineRestamps(t, n) ==
    IF t.deadline.kind = "none" \/ t.status = "done" THEN t
    ELSE IF t.deadline.kind = "bad" THEN t
    ELSE IF t.deadline.at < n THEN MarkOverdue(t, n) ELSE t
CheckDeadline(t, n) ==
    IF t.deadline.kind = "none" \/ t.status = "done" THEN t
    ELSE IF t.deadline.kind = "bad" THEN t
    ELSE IF t.deadline.at < n /\ t.status \notin {"overdue", "done"}
         THEN MarkOverdue(t, n)
         ELSE t

_check_deadlines(reg, n) == [id \in DOMAIN reg |-> CheckDeadline(reg[id], n)]

----------------------------------------------------------------------------
(* _recalculate_priorities *)

\* urgency_bump for a parsed deadline: None (a missing or unparsable one) or a time
UrgencyBumpRelaxNone(d, n) ==
    IF d.kind \in {"none", "bad"} THEN FAR_BUMP
    ELSE LET delta == d.at - n
         IN  IF delta <= 0 THEN PAST_BUMP
             ELSE IF delta < HOUR THEN SOON_BUMP
             ELSE IF delta < DAY THEN 0
             ELSE FAR_BUMP
UrgencyBumpNoHour(d, n) ==
    IF d.kind \in {"none", "bad"} THEN 0
    ELSE LET delta == d.at - n
         IN  IF delta <= 0 THEN PAST_BUMP
             ELSE IF delta < DAY THEN 0
             ELSE FAR_BUMP
UrgencyBumpPastByOne(d, n) ==
    IF d.kind \in {"none", "bad"} THEN 0
    ELSE LET delta == d.at - n
         IN  IF delta < HOUR THEN SOON_BUMP
             ELSE IF delta < DAY THEN 0
             ELSE FAR_BUMP
UrgencyBump(d, n) ==
    IF d.kind \in {"none", "bad"} THEN 0
    ELSE LET delta == d.at - n
         IN  IF delta <= 0 THEN PAST_BUMP
             ELSE IF delta < HOUR THEN SOON_BUMP
             ELSE IF delta < DAY THEN 0
             ELSE FAR_BUMP

NewPriorityNoClamp(t, n) == t.priority + UrgencyBump(t.deadline, n)
NewPriority(t, n) == Clamp(t.priority + UrgencyBump(t.deadline, n))

RecalculateFromDefault(t, n) ==
    IF t.status = "done" THEN t
    ELSE [t EXCEPT !.priority = Clamp(DEFAULT_PRIORITY + UrgencyBump(t.deadline, n))]
Recalculate(t, n) ==
    IF t.status = "done" THEN t ELSE [t EXCEPT !.priority = NewPriority(t, n)]

_recalculate_priorities(reg, n) == [id \in DOMAIN reg |-> Recalculate(reg[id], n)]

----------------------------------------------------------------------------
(* _generate_ai_suggestions and the external capability it calls *)

\* what suggest_next_actions can do: raise, return a mapping from task id to
\* suggestion (an id it leaves out reads as None), or return something else
Errors == {"e1", "e2"}
Batch == "batch"
Outcomes ==
    [kind : {"raise"}, err : Errors, has : {{}}]
    \cup [kind : {"dict"}, err : {NoKey}, has : SUBSET TaskIds]
    \cup [kind : {"other"}, err : {NoKey}, has : {{}}]

\* the payload the success loop stores for task id
PayloadForWhole(o, id) == Batch
PayloadFor(o, id) ==
    IF o.kind = "dict" THEN (IF id \in o.has THEN id ELSE None) ELSE Batch

Attach(t, v) == [t EXCEPT !.metadata.ai_suggestions = v]

\* the handler's loop body
AttachErrorDropped(t, e) == t
AttachError(t, e) == [t EXCEPT !.metadata.ai_suggestions_error = e]

\* the tasks the except handler writes to
ErrorTargets(reg) == DOMAIN reg

\* the tasks collected into pending_tasks
Pending(reg) == {id \in DOMAIN reg : reg[id].status # "done"}

_generate_ai_suggestions(reg, o) ==
    IF o.kind = "raise"
    THEN [id \in DOMAIN reg |->
            IF id \in ErrorTargets(reg) THEN AttachError(reg[id], o.err) ELSE reg[id]]
    ELSE [id \in DOMAIN reg |->
            IF id \in Pending(reg) THEN Attach(reg[id], PayloadFor(o, id)) ELSE reg[id]]

----------------------------------------------------------------------------
(* Task registry: register_task, remove_task, and the caller's own writes *)

\* register_task's "# Normalize" block: setdefault keeps a key the caller gave
Normalize(inp) ==
    Task(IF "status" \in inp.has THEN inp.status ELSE "pending",
         IF "priority" \in inp.has THEN inp.priority ELSE DEFAULT_PRIORITY,
         inp.deadline,
         IF "metadata" \in inp.has THEN inp.metadata ELSE EmptyMetadata)

\* self.tasks[task["id"]] = task
PutKeepsPrior(reg, id, t) ==
    [k \in DOMAIN reg \cup {id} |-> IF k \in DOMAIN reg THEN reg[k] ELSE t]
Put(reg, id, t) == [k \in DOMAIN reg \cup {id} |-> IF k = id THEN t ELSE reg[k]]
\* self.tasks.pop(task_id, None)
Pop(reg, id) == [k \in DOMAIN reg \ {id} |-> reg[k]]

----------------------------------------------------------------------------
(* Jobs *)

HK_DEADLINES == "housekeeping:deadlines"
HK_PRIORITIES == "housekeeping:priorities"
HK_AI == "housekeeping:ai_suggestions"
Housekeeping == {HK_DEADLINES, HK_PRIORITIES, HK_AI}
UserJobs == {"j1"}
JobIds == Housekeeping \cup UserJobs
\* job_id = f"task:{task_id}:once"
ProposalJobId(t) == IF t = "t1" THEN "task:t1:once" ELSE "task:t2:once"
AllJobIds == JobIds \cup {ProposalJobId(t) : t \in TaskIds}

\* callables: the three bound methods, and three of the caller's:
\* def f_0(), def f_x(x) and def f_kw(**kw)
HousekeepingFuncs ==
    {"_check_deadlines", "_recalculate_priorities", "_generate_ai_suggestions"}
UserFuncs == {"f_0", "f_x", "f_kw"}
\* def noop(task_id) of schedule_task_by_proposal
Noop == "noop"

\* the keyword names a callable's signature accepts, and whether it has **kwargs
Accepts(f) == IF f = "f_x" THEN {"x"} ELSE IF f = Noop THEN {"task_id"} ELSE {}
VarKw(f) == f = "f_kw"

\* a job's kwargs dict: the bound arguments x and task_id, and the keys the
\* listeners write
EmptyKwargs ==
    [x |-> NoKey, task_id |-> NoKey, last_run_at |-> NoTime, result |-> NoKey,
     last_error_at |-> NoTime, exception |-> NoKey]
Keys(kw) ==
    {k \in {"x", "task_id", "result", "exception"} : kw[k] # NoKey}
    \cup {k \in {"last_run_at", "last_error_at"} : kw[k] # NoTime}

\* func(**kwargs) binds: every key is a parameter, or the callable takes **kwargs
CallableAccepts(f, kw) == VarKw(f) \/ Keys(kw) \subseteq Accepts(f)

Job(f, trig, nxt, kw) == [func |-> f, trigger |-> trig, next |-> nxt, kwargs |-> kw]
DateTrigger(at) == [kind |-> "date", every |-> 0, run_date |-> at]
IntervalTrigger(s, start) == [kind |-> "interval", every |-> s, run_date |-> start]

\* scheduler.add_job(..., id=job_id, replace_existing=True)
add_jobKeepsPrior(store, id, job) ==
    [k \in DOMAIN store \cup {id} |-> IF k \in DOMAIN store THEN store[k] ELSE job]
add_job(store, id, job) ==
    [k \in DOMAIN store \cup {id} |-> IF k = id THEN job ELSE store[k]]
remove_job(store, id) == [k \in DOMAIN store \ {id} |-> store[k]]

\* schedule_interval: IntervalTrigger(seconds) first fires one period from now
schedule_interval(store, f, s, id, kw, n) ==
    add_job(store, id, Job(f, IntervalTrigger(s, n + s), n + s, kw))
\* schedule_once: DateTrigger(run_date=run_at)
schedule_once(store, f, at, id, kw) ==
    add_job(store, id, Job(f, DateTrigger(at), at, kw))

\* cron.split(): the maximal runs of characters that are not whitespace
IsSpace(c) == c \in {" ", "\t"}
RECURSIVE Fields(_, _, _)
Fields(s, i, cur) ==
    IF i > Len(s) THEN (IF cur = <<>> THEN <<>> ELSE <<cur>>)
    ELSE IF IsSpace(s[i])
         THEN (IF cur = <<>> THEN <<>> ELSE <<cur>>) \o Fields(s, i + 1, <<>>)
         ELSE Fields(s, i + 1, Append(cur, s[i]))
Split(s) == Fields(s, 1, <<>>)

\* CronTrigger(minute, hour, day, month, day_of_week): the expressions of the
\* model are "*" and, for the minute, a step of 5 or 10; CronTrigger raises
\* ValueError for a field it cannot parse
EveryFive == <<"*", "/", "5">>
EveryTen == <<"*", "/", "1", "0">>
Star == <<"*">>
CronFieldsOk(fields) ==
    /\ fields[1] \in {EveryFive, EveryTen}
    /\ \A i \in 2 .. 5 : fields[i] = Star
CronPeriod(fields) == IF fields[1] = EveryFive THEN 5 * 60 ELSE 10 * 60
\* the first time after n that matches
CronNext(p, n) == (n \div p + 1) * p
CronTrigger(fields, n) ==
    [kind |-> "cron", every |-> CronPeriod(fields),
     run_date |-> CronNext(CronPeriod(fields), n)]

\* how many fields the check of schedule_cron asks for
CRON_FIELDS == 5
\* schedule_cron, once the expression has passed the checks
schedule_cron(store, f, fields, id, kw, n) ==
    add_job(store, id,
            Job(f, CronTrigger(fields, n), CronNext(CronPeriod(fields), n), kw))

\* _schedule_housekeeping_jobs
_schedule_housekeeping_jobs(store, n) ==
    LET s1 == schedule_interval(store, "_check_deadlines", DEADLINE_INTERVAL,
                                HK_DEADLINES, EmptyKwargs, n)
        s2 == schedule_interval(s1, "_recalculate_priorities", PRIORITY_INTERVAL,
                                HK_PRIORITIES, EmptyKwargs, n)
    IN  schedule_interval(s2, "_generate_ai_suggestions", AI_INTERVAL,
                          HK_AI, EmptyKwargs, n)

----------------------------------------------------------------------------
(* Listeners *)

\* job.modify(kwargs=meta): the scheduler checks meta against the callable's
\* signature and raises ValueError when it does not fit; a listener's exception
\* is logged by the scheduler and goes no further
ModifyAcceptsAnything(f, meta) == TRUE
ModifyAccepts(f, meta) == CallableAccepts(f, meta)

\* meta = getattr(job, "kwargs", {}) or {}: the job's own dict, written in place,
\* unless that dict is empty (falsy), when meta is a new dict that reaches the
\* job only if job.modify takes it
WriteBack(job, meta) ==
    IF job.kwargs # EmptyKwargs THEN [job EXCEPT !.kwargs = meta]
    ELSE IF ModifyAccepts(job.func, meta) THEN [job EXCEPT !.kwargs = meta]
    ELSE job

\* _on_job_executed, for the event of job id returning retval at time n
ExecutedMeta(kw, retval, n) == [kw EXCEPT !.last_run_at = n, !.result = retval]
_on_job_executed(store, id, retval, n) ==
    IF id \notin DOMAIN store THEN store
    ELSE [store EXCEPT ![id] = WriteBack(@, ExecutedMeta(@.kwargs, retval, n))]

\* _on_job_error, for the event of job id raising exc at time n
ErrorMeta(kw, exc, n) == [kw EXCEPT !.last_error_at = n, !.exception = exc]
_on_job_error(store, id, exc, n) ==
    IF id \notin DOMAIN store THEN store
    ELSE [store EXCEPT ![id] = WriteBack(@, ErrorMeta(@.kwargs, exc, n))]

----------------------------------------------------------------------------
(* The run loop's view of a job *)

\* BackgroundScheduler sleeps until the next run time: a started scheduler's
\* job is due when the clock reaches it
Due(job) == job.next <= now

\* after a firing: the trigger's next fire time; a date trigger has none and
\* the scheduler removes the job before its event reaches the listeners
AfterFiring(store, id) ==
    IF store[id].trigger.kind = "date" THEN remove_job(store, id)
    ELSE [store EXCEPT ![id].next = @ + store[id].trigger.every]

\* scheduler.start() adds the jobs scheduled before it: an interval trigger's
\* first fire time is its start date or the first period boundary not before
\* now; a date trigger whose run date has passed is a misfire and is dropped
CeilDiv(a, b) == (a + b - 1) \div b
FirstFire(job, n) ==
    IF job.trigger.run_date >= n THEN job.trigger.run_date
    ELSE job.trigger.run_date
         + CeilDiv(n - job.trigger.run_date, job.trigger.every) * job.trigger.every
RealAdd(store, n) ==
    LET keep == {k \in DOMAIN store :
                    store[k].trigger.kind = "date" => store[k].trigger.run_date >= n}
    IN  [k \in keep |->
            IF store[k].trigger.kind = "date" THEN store[k]
            ELSE [store[k] EXCEPT !.next = FirstFire(store[k], n)]]

----------------------------------------------------------------------------
(* State *)

NoTasks == [k \in {} |-> Task("pending", DEFAULT_PRIORITY, NoDeadline, EmptyMetadata)]
NoJobs == [k \in {} |-> Job("f_kw", DateTrigger(0), 0, EmptyKwargs)]

\* the record of the operation that acted last: its name, the task or job id
\* it was about, the keys of the kwargs a callable was invoked with, how the
\* call ended ("ok" or the exception), how the external capability ended, the
\* callable that was scheduled or invoked, what the operation returned, and
\* the trigger argument it was given (the characters of a cron expression, or
\* the kind of a proposal and the kind and the time of its run_at); prior is
\* set by Over
LastArg(op, id, passed, outcome, ext, func, ret, arg, at) ==
    [op |-> op, id |-> id, passed |-> Keys(passed), outcome |-> outcome, ext |-> ext,
     func |-> func, ret |-> ret, arg |-> arg, at |-> at, prior |-> NoKey]
LastFull(op, id, passed, outcome, ext, func, ret) ==
    LastArg(op, id, passed, outcome, ext, func, ret, <<>>, NoTime)
LastExt(op, id, passed, outcome, ext) ==
    LastFull(op, id, passed, outcome, ext, NoKey, NoKey)
LastFunc(op, id, passed, outcome, func) ==
    LastFull(op, id, passed, outcome, NoKey, func, NoKey)
Last(op, id, passed, outcome) == LastExt(op, id, passed, outcome, NoKey)
Nothing == Last("none", NoKey, EmptyKwargs, NoKey)
\* for a scheduling operation: the callable of the job the id held before it
Over(rec, store, id) ==
    [rec EXCEPT !.prior = IF id \in DOMAIN store THEN store[id].func ELSE NoKey]

\* how suggest_next_actions ended, for the record
ExtOf(o) == IF o.kind = "raise" THEN o.err ELSE "ok"

\* the suggestion refresh is not running step by step
NoOutcome == [kind |-> "other", err |-> NoKey, has |-> {}]
Refresh(pc, left, used, pending, base, outcome, err) ==
    [pc |-> pc, left |-> left, used |-> used, pending |-> pending, base |-> base,
     outcome |-> outcome, err |-> err]
Idle == Refresh("idle", {}, 0, {}, {}, NoOutcome, NoKey)

\* BackgroundScheduler(): a job runs in at most max_instances invocations at a
\* time, 1 unless the job says otherwise; no invocation is in flight at first
MAX_INSTANCES == 1
NoneRunning == [id \in AllJobIds |-> 0]

Init ==
    /\ tasks = NoTasks
    /\ now = 0
    /\ started = FALSE
    /\ jobs = NoJobs
    /\ last = Nothing
    /\ calls = 0
    /\ sg = Idle
    /\ running = NoneRunning

----------------------------------------------------------------------------
(* The caller's operations *)

\* What a write to self.tasks means to a refresh running on a pool thread.  A
\* dict iterator walks the entries in insertion order: a new key is appended
\* ahead of it, a replaced key keeps its place, a removed key is skipped.
\* pending_tasks holds the task dicts themselves: a dict that was removed or
\* replaced is no longer the registry's, and what is written to it is lost.
Iterating(r) == r.pc \in {"collect", "handle", "sweep"}
Inserted(r, id) ==
    IF Iterating(r) THEN [r EXCEPT !.left = @ \cup {id}] ELSE r
Replaced(r, id) ==
    IF r.pc = "idle" THEN r
    ELSE [r EXCEPT !.pending = @ \ {id}, !.base = @ \ {id},
                   !.left = IF Iterating(r) THEN @ ELSE @ \ {id}]
Removed(r, id) ==
    IF r.pc = "idle" THEN r
    ELSE [r EXCEPT !.pending = @ \ {id}, !.base = @ \ {id}, !.left = @ \ {id}]

\* one more operation of the caller
Called ==
    /\ calls < MaxCalls
    /\ now <= MaxCallTicks * Step
    /\ calls' = calls + 1

\* the task dicts the caller registers; has = the keys the dict holds besides
\* deadline, which reads as None when missing
PriorMetadata == [EmptyMetadata EXCEPT !.ai_suggestions_error = "e2"]
TaskInput(has, st, p, d, m) ==
    [has |-> has, status |-> st, priority |-> p, deadline |-> d, metadata |-> m]
RegInputs ==
    { TaskInput({"id"}, NoKey, 0, NoDeadline, EmptyMetadata),
      TaskInput({"id"}, NoKey, 0, At(2 * Step), EmptyMetadata),
      TaskInput({"id", "status", "priority"}, "in_progress", 7, At(DAY + HOUR), EmptyMetadata),
      TaskInput({"id", "status", "metadata"}, "done", 0, At(0 - HOUR), PriorMetadata),
      TaskInput({}, NoKey, 0, NoDeadline, EmptyMetadata) }

\* the record of a register_task call: the status and the priority the task
\* dict came with, and the status of the task the id held before
Registered(id, inp, reg, outcome) ==
    [LastArg("register_task", id, EmptyKwargs, outcome, NoKey, NoKey, NoKey,
             <<IF "status" \in inp.has THEN inp.status ELSE NoKey>>,
             IF "priority" \in inp.has THEN inp.priority ELSE NoTime)
     EXCEPT !.prior = IF id \in DOMAIN reg THEN reg[id].status ELSE NoKey]

RegisterTaskUnchecked(id, inp) ==
    /\ Called
    /\ tasks' = Put(tasks, id, Normalize(inp))
    /\ sg' = IF id \in DOMAIN tasks THEN Replaced(sg, id) ELSE Inserted(sg, id)
    /\ last' = Registered(IF "id" \in inp.has THEN id ELSE NoKey, inp, tasks, "ok")
    /\ UNCHANGED <<now, started, jobs, running>>
RegisterTask(id, inp) ==
    /\ Called
    /\ IF "id" \notin inp.has
       THEN /\ last' = Registered(NoKey, inp, tasks, "ValueError")
            /\ UNCHANGED <<tasks, sg>>
       ELSE /\ tasks' = Put(tasks, id, Normalize(inp))
            /\ sg' = IF id \in DOMAIN tasks THEN Replaced(sg, id) ELSE Inserted(sg, id)
            /\ last' = Registered(id, inp, tasks, "ok")
    /\ UNCHANGED <<now, started, jobs, running>>

RemoveTask(id) ==
    /\ Called
    /\ tasks' = Pop(tasks, id)
    /\ sg' = Removed(sg, id)
    /\ last' = Last("remove_task", id, EmptyKwargs, "ok")
    /\ UNCHANGED <<now, started, jobs, running>>

\* the caller completes a task it registered: task["status"] = "done"
MarkDone(id) ==
    /\ Called
    /\ id \in DOMAIN tasks
    /\ tasks[id].status # "done"
    /\ tasks' = [tasks EXCEPT ![id].status = "done"]
    /\ last' = Last("mark_done", id, EmptyKwargs, "ok")
    /\ UNCHANGED <<now, started, jobs, sg, running>>

\* start()
StartUnguarded ==
    /\ Called
    /\ jobs' = _schedule_housekeeping_jobs(RealAdd(jobs, now), now)
    /\ started' = TRUE
    /\ last' = Last("start", NoKey, EmptyKwargs, "ok")
    /\ UNCHANGED <<tasks, now, sg, running>>
Start ==
    /\ Called
    /\ IF started THEN UNCHANGED <<jobs, started>>
       ELSE /\ jobs' = _schedule_housekeeping_jobs(RealAdd(jobs, now), now)
            /\ started' = TRUE
    /\ last' = Last("start", NoKey, EmptyKwargs, "ok")
    /\ UNCHANGED <<tasks, now, sg, running>>

\* the kwargs the caller binds: none, or x
BoundKwargs == {EmptyKwargs, [EmptyKwargs EXCEPT !.x = "1"]}
\* add_job checks the bound arguments against the callable's signature
Schedulable(f, kw) ==
    /\ f = "f_x" => kw.x # NoKey
    /\ f = "f_0" => kw.x = NoKey

ScheduleInterval(f, s, id, kw) ==
    /\ Called
    /\ Schedulable(f, kw)
    /\ jobs' = schedule_interval(jobs, f, s, id, kw, now)
    /\ last' = Over(LastFunc("schedule_interval", id, kw, "ok", f), jobs, id)
    /\ UNCHANGED <<tasks, now, started, sg, running>>

ScheduleOnce(f, at, id, kw) ==
    /\ Called
    /\ Schedulable(f, kw)
    /\ jobs' = schedule_once(jobs, f, at, id, kw)
    /\ last' = Over(LastFunc("schedule_once", id, kw, "ok", f), jobs, id)
    /\ UNCHANGED <<tasks, now, started, sg, running>>

\* what propose_schedule can do: raise, return None, return an empty mapping,
\* or return a mapping whose run_at is missing (or None), a datetime, ISO text
\* or text that does not parse
PropNone == [kind |-> "none", err |-> NoKey, run_at |-> NoDeadline]
PropDict(r) == [kind |-> "dict", err |-> NoKey, run_at |-> r]
Proposals(n) ==
    {[kind |-> "raise", err |-> "e1", run_at |-> NoDeadline],
     PropNone,
     [kind |-> "empty", err |-> NoKey, run_at |-> NoDeadline]}
    \cup {PropDict(r) : r \in {NoDeadline, BadDeadline, At(n + Step), Iso(n + Step),
                                At(0 - HOUR)}}

\* suggest_schedule_for_task: what it returns, None for a task that is not
\* registered and for a capability that raised
suggest_schedule_for_taskUncaught(reg, t, pr) ==
    IF t \notin DOMAIN reg THEN PropNone ELSE pr
suggest_schedule_for_task(reg, t, pr) ==
    IF t \notin DOMAIN reg THEN PropNone
    ELSE IF pr.kind = "raise" THEN PropNone
    ELSE pr
\* whether it called the capability, and how that ended
ProposalExt(reg, t, pr) ==
    IF t \notin DOMAIN reg THEN NoKey
    ELSE IF pr.kind = "raise" THEN pr.err ELSE "ok"
\* the returned value, for the record
ReturnOf(pr) == IF pr.kind = "none" THEN None ELSE pr.kind

SuggestSchedule(t, pr) ==
    /\ Called
    /\ last' = LastFull("suggest_schedule_for_task", t, EmptyKwargs, "ok",
                        ProposalExt(tasks, t, pr), NoKey,
                        ReturnOf(suggest_schedule_for_task(tasks, t, pr)))
    /\ UNCHANGED <<tasks, now, started, jobs, sg, running>>

\* schedule_task_by_proposal: "if not proposal" takes None and {} alike
Falsy(pr) == pr.kind \in {"none", "empty"}
\* timedelta(minutes=10)
FALLBACK_DELAY == 10 * 60
\* run_at after the parsing of text and the fallback
RunAtNoFallback(pr, n) == pr.run_at.at
RunAt(pr, n) ==
    IF pr.run_at.kind \in {"none", "bad"} THEN n + FALLBACK_DELAY ELSE pr.run_at.at
NoopKwargs(t) == [EmptyKwargs EXCEPT !.task_id = t]

ScheduleByProposal(t, pr) ==
    /\ Called
    /\ LET proposal == suggest_schedule_for_task(tasks, t, pr)
       IN  IF Falsy(proposal)
           THEN /\ last' = LastArg("schedule_task_by_proposal", t, EmptyKwargs, "ok",
                                   ProposalExt(tasks, t, pr), NoKey, None,
                                   <<proposal.kind>>, NoTime)
                /\ UNCHANGED jobs
           ELSE /\ jobs' = schedule_once(jobs, Noop, RunAt(proposal, now),
                                         ProposalJobId(t), NoopKwargs(t))
                /\ last' = Over(LastArg("schedule_task_by_proposal", t, NoopKwargs(t),
                                        "ok", ProposalExt(tasks, t, pr), Noop,
                                        ProposalJobId(t),
                                        <<proposal.kind, proposal.run_at.kind>>,
                                        proposal.run_at.at), jobs, ProposalJobId(t))
    /\ UNCHANGED <<tasks, now, started, sg, running>>

\* the cron expressions the caller gives, as strings of characters
Chars3 == <<"*", " ", "*", " ", "*">>
Chars5 == <<"*", "/", "5", " ", "*", " ", "*", " ", "*", " ", "*">>
CronInputs ==
    {<<>>, Chars3, Chars5,
     <<" ", "*", "/", "1", "0", " ", " ", "*", "\t", "*", " ", "*", " ", "*", " ">>,
     Chars5 \o <<" ", "*">>,
     <<"x", " ", "*", " ", "*", " ", "*", " ", "*">>}

\* the check of the field count comes first, then CronTrigger's parsing, then
\* add_job: an expression that fails either leaves the job store alone
ScheduleCronPadded(f, cron, id, kw) ==
    /\ Called
    /\ Schedulable(f, kw)
    /\ LET fields == Split(cron) \o <<Star, Star, Star, Star, Star>>
       IN  IF ~CronFieldsOk(fields)
           THEN /\ last' = Over(LastArg("schedule_cron", id, kw, "ValueError", NoKey, f,
                                        NoKey, cron, NoTime), jobs, id)
                /\ UNCHANGED jobs
           ELSE /\ jobs' = schedule_cron(jobs, f, fields, id, kw, now)
                /\ last' = Over(LastArg("schedule_cron", id, kw, "ok", NoKey, f,
                                        NoKey, cron, NoTime), jobs, id)
    /\ UNCHANGED <<tasks, now, started, sg, running>>
ScheduleCron(f, cron, id, kw) ==
    /\ Called
    /\ Schedulable(f, kw)
    /\ LET fields == Split(cron)
       IN  IF Len(fields) # CRON_FIELDS \/ ~CronFieldsOk(fields)
           THEN /\ last' = Over(LastArg("schedule_cron", id, kw, "ValueError", NoKey, f,
                                        NoKey, cron, NoTime), jobs, id)
                /\ UNCHANGED jobs
           ELSE /\ jobs' = schedule_cron(jobs, f, fields, id, kw, now)
                /\ last' = Over(LastArg("schedule_cron", id, kw, "ok", NoKey, f,
                                        NoKey, cron, NoTime), jobs, id)
    /\ UNCHANGED <<tasks, now, started, sg, running>>

----------------------------------------------------------------------------
(* The run loop: firing a due job, and the event it sends to the listeners *)

\* a run time that is more than misfire_grace_time (1 second unless the job
\* says otherwise) in the past is a misfire: the executor does not run it
MISFIRE_GRACE == 1
Misfired(job) == now - job.next > MISFIRE_GRACE
CanFire(id) ==
    /\ started
    /\ id \in DOMAIN jobs
    /\ Due(jobs[id])
    /\ ~Misfired(jobs[id])

\* the run loop passes over a misfire: no invocation, and no event for the
\* two listeners
FireMissed(id) ==
    /\ started
    /\ id \in DOMAIN jobs
    /\ Due(jobs[id])
    /\ Misfired(jobs[id])
    /\ jobs' = AfterFiring(jobs, id)
    /\ last' = LastFunc("missed", id, jobs[id].kwargs, "ok", jobs[id].func)
    /\ UNCHANGED <<tasks, now, started, sg, calls, running>>

\* func(**kwargs) raises TypeError before the body runs
FireRejected(id) ==
    /\ CanFire(id)
    /\ ~CallableAccepts(jobs[id].func, jobs[id].kwargs)
    /\ jobs' = _on_job_error(AfterFiring(jobs, id), id, "TypeError", now)
    /\ last' = LastFunc("fire", id, jobs[id].kwargs, "TypeError", jobs[id].func)
    /\ UNCHANGED <<tasks, now, started, sg, calls, running>>

FireDeadlines(id) ==
    /\ CanFire(id)
    /\ jobs[id].func = "_check_deadlines"
    /\ CallableAccepts(jobs[id].func, jobs[id].kwargs)
    /\ tasks' = _check_deadlines(tasks, now)
    /\ jobs' = _on_job_executed(AfterFiring(jobs, id), id, None, now)
    /\ last' = LastFunc("fire", id, jobs[id].kwargs, "ok", jobs[id].func)
    /\ UNCHANGED <<now, started, sg, calls, running>>

FirePriorities(id) ==
    /\ CanFire(id)
    /\ jobs[id].func = "_recalculate_priorities"
    /\ CallableAccepts(jobs[id].func, jobs[id].kwargs)
    /\ tasks' = _recalculate_priorities(tasks, now)
    /\ jobs' = _on_job_executed(AfterFiring(jobs, id), id, None, now)
    /\ last' = LastFunc("fire", id, jobs[id].kwargs, "ok", jobs[id].func)
    /\ UNCHANGED <<now, started, sg, calls, running>>

FireSuggestions(id, o) ==
    /\ CanFire(id)
    /\ jobs[id].func = "_generate_ai_suggestions"
    /\ CallableAccepts(jobs[id].func, jobs[id].kwargs)
    /\ tasks' = _generate_ai_suggestions(tasks, o)
    /\ jobs' = _on_job_executed(AfterFiring(jobs, id), id, None, now)
    /\ last' = LastFull("fire", id, jobs[id].kwargs, "ok", ExtOf(o), jobs[id].func, NoKey)
    /\ UNCHANGED <<now, started, sg, calls, running>>

\* what one of the caller's callables does: return None, return a value, raise
Returns == {None, "v"}
UserErrors == {"e1"}
\* the period the caller schedules its interval jobs with
UserPeriod == 6 * Step
FireUserReturns(id, r) ==
    /\ CanFire(id)
    /\ jobs[id].func \in UserFuncs
    /\ CallableAccepts(jobs[id].func, jobs[id].kwargs)
    /\ jobs' = _on_job_executed(AfterFiring(jobs, id), id, r, now)
    /\ last' = LastFunc("fire", id, jobs[id].kwargs, "ok", jobs[id].func)
    /\ UNCHANGED <<tasks, now, started, sg, calls, running>>

FireUserRaises(id, e) ==
    /\ CanFire(id)
    /\ jobs[id].func \in UserFuncs
    /\ CallableAccepts(jobs[id].func, jobs[id].kwargs)
    /\ jobs' = _on_job_error(AfterFiring(jobs, id), id, e, now)
    /\ last' = LastFunc("fire", id, jobs[id].kwargs, e, jobs[id].func)
    /\ UNCHANGED <<tasks, now, started, sg, calls, running>>

\* the placeholder of schedule_task_by_proposal: stamps executed_at on the
\* task when it is still registered
noop(reg, t, n) ==
    IF t \in DOMAIN reg THEN [reg EXCEPT ![t].metadata.executed_at = n] ELSE reg
FireNoop(id) ==
    /\ CanFire(id)
    /\ jobs[id].func = Noop
    /\ CallableAccepts(jobs[id].func, jobs[id].kwargs)
    /\ tasks' = noop(tasks, jobs[id].kwargs.task_id, now)
    /\ jobs' = _on_job_executed(AfterFiring(jobs, id), id, None, now)
    /\ last' = LastFunc("fire", id, jobs[id].kwargs, "ok", jobs[id].func)
    /\ UNCHANGED <<now, started, sg, calls, running>>

\* the clock; a started scheduler fires what is due before time moves on, and
\* before the start time passes only while the caller still makes calls
Tick ==
    /\ now < MaxTicks * Step
    /\ IF started THEN \A id \in DOMAIN jobs : ~Due(jobs[id])
       ELSE now < MaxCallTicks * Step
    /\ now' = now + Step
    /\ last' = Last("tick", NoKey, EmptyKwargs, "ok")
    /\ UNCHANGED <<tasks, started, jobs, sg, calls, running>>

Next ==
    \/ \E id \in TaskIds, inp \in RegInputs : RegisterTask(id, inp)
    \/ \E id \in TaskIds : RemoveTask(id)
    \/ \E id \in TaskIds : MarkDone(id)
    \/ Start
    \/ \E f \in UserFuncs, s \in {UserPeriod}, id \in UserJobs, kw \in BoundKwargs :
          ScheduleInterval(f, s, id, kw)
    \/ \E f \in UserFuncs, at \in {now, now + Step}, id \in UserJobs, kw \in BoundKwargs :
          ScheduleOnce(f, at, id, kw)
    \/ \E id \in JobIds : FireRejected(id)
    \/ \E id \in JobIds : FireDeadlines(id)
    \/ \E id \in JobIds : FirePriorities(id)
    \/ \E id \in JobIds, o \in Outcomes : FireSuggestions(id, o)
    \/ \E id \in JobIds, r \in Returns : FireUserReturns(id, r)
    \/ \E id \in JobIds, e \in UserErrors : FireUserRaises(id, e)
    \/ Tick

Spec == Init /\ [][Next]_vars

----------------------------------------------------------------------------
(* The job store: the three scheduling operations, start, and the run loop *)

\* the clock of the job-store and the proposal specifications
JobsTick ==
    /\ now < MaxJobTicks * Step
    /\ IF started THEN \A id \in DOMAIN jobs : ~Due(jobs[id])
       ELSE now < MaxCallTicks * Step
    /\ now' = now + Step
    /\ last' = Last("tick", NoKey, EmptyKwargs, "ok")
    /\ UNCHANGED <<tasks, started, jobs, sg, calls, running>>

\* the period the caller schedules its interval jobs with here
JobPeriod == 2 * Step

NextJobs ==
    \/ Start
    \/ \E f \in UserFuncs, id \in UserJobs, kw \in BoundKwargs :
          ScheduleInterval(f, JobPeriod, id, kw)
    \/ \E f \in UserFuncs, at \in {now, now + Step}, id \in UserJobs, kw \in BoundKwargs :
          ScheduleOnce(f, at, id, kw)
    \/ \E f \in UserFuncs, cron \in CronInputs, id \in UserJobs, kw \in BoundKwargs :
          ScheduleCron(f, cron, id, kw)
    \/ \E id \in JobIds : FireRejected(id)
    \/ \E id \in JobIds : FireDeadlines(id)
    \/ \E id \in JobIds : FirePriorities(id)
    \/ \E id \in JobIds, r \in Returns : FireUserReturns(id, r)
    \/ \E id \in JobIds, e \in UserErrors : FireUserRaises(id, e)
    \/ JobsTick

SpecJobs == Init /\ [][NextJobs]_vars

\* the step is a scheduling operation that went through; a firing; a start
ScheduledStep ==
    /\ last'.op \in {"schedule_once", "schedule_interval", "schedule_cron"}
    /\ last'.outcome = "ok"
FiredStep == last'.op = "fire"
StartStep == last'.op = "start"
TriggerOf(op) ==
    IF op = "schedule_once" THEN "date"
    ELSE IF op = "schedule_interval" THEN "interval" ELSE "cron"

\* C11: a scheduling operation leaves one job under its id, the one it was
\* given (callable, bound arguments and trigger; nothing of the job the id
\* held before), and leaves the other jobs alone; a firing invokes the
\* callable the store holds under the id, and the job is not due again at
\* that tick.
C11_ReplacesPrior ==
    [][/\ ScheduledStep =>
            /\ DOMAIN jobs' = DOMAIN jobs \cup {last'.id}
            /\ jobs'[last'.id].func = last'.func
            /\ Keys(jobs'[last'.id].kwargs) = last'.passed
            /\ jobs'[last'.id].trigger.kind = TriggerOf(last'.op)
            /\ \A other \in DOMAIN jobs \ {last'.id} : jobs'[other] = jobs[other]
       /\ FiredStep =>
            /\ last'.func = jobs[last'.id].func
            /\ last'.id \in DOMAIN jobs' => jobs'[last'.id].next > now]_vars

\* a one-off job for f_x has just replaced a job of another callable under
\* j1 on a started scheduler, and it is due: the store holds only it
C11_Witness ==
    /\ started
    /\ last.op = "schedule_once"
    /\ last.prior \in {"f_0", "f_kw"}
    /\ last.func = "f_x"
    /\ jobs[last.id].func = "f_x"
    /\ jobs[last.id].next <= now

\* C12: a one-off job leaves the job set by firing and in no other way short
\* of a scheduling call, so that it fires exactly once; its firing removes
\* it; the firing of an interval or cron job leaves it in the job set.
C12_OnceThenGone ==
    [][/\ \A id \in DOMAIN jobs :
            (jobs[id].trigger.kind = "date" /\ id \notin DOMAIN jobs')
            => (FiredStep /\ last'.id = id)
       /\ FiredStep =>
            IF jobs[last'.id].trigger.kind = "date"
            THEN last'.id \notin DOMAIN jobs'
            ELSE /\ last'.id \in DOMAIN jobs'
                 /\ jobs'[last'.id].trigger = jobs[last'.id].trigger]_vars

\* how many whitespace-separated fields a string has: the places where a
\* field begins
FieldCount(s) ==
    Cardinality({i \in 1 .. Len(s) : ~IsSpace(s[i]) /\ (i = 1 \/ IsSpace(s[i - 1]))})

\* C14: schedule_cron with an expression that does not have exactly 5
\* whitespace-separated fields raises ValueError and leaves the job store as
\* it was.
C14_MalformedCronRejected ==
    [][(last'.op = "schedule_cron" /\ FieldCount(last'.arg) # 5) =>
          /\ last'.outcome = "ValueError"
          /\ jobs' = jobs]_vars

\* schedule_cron has just rejected "* * *" for an id that holds a job, and
\* the job is still the one of the other callable
C14_Witness ==
    /\ last.op = "schedule_cron"
    /\ last.arg = Chars3
    /\ last.outcome = "ValueError"
    /\ last.prior # NoKey
    /\ last.id \in DOMAIN jobs
    /\ jobs[last.id].func = last.prior
    /\ last.func # last.prior

\* the callable and the period of each housekeeping job
HousekeepingFunc(id) ==
    IF id = HK_DEADLINES THEN "_check_deadlines"
    ELSE IF id = HK_PRIORITIES THEN "_recalculate_priorities"
    ELSE "_generate_ai_suggestions"

\* C16: start() never raises; the first call starts the run loop and adds
\* exactly the three housekeeping jobs; a call on a running scheduler leaves
\* the job store as it was.
C16_StartIdempotent ==
    [][StartStep =>
          /\ last'.outcome = "ok"
          /\ started'
          /\ IF started THEN jobs' = jobs
             ELSE /\ DOMAIN jobs' \ DOMAIN jobs = Housekeeping
                  /\ \A id \in Housekeeping :
                        /\ jobs'[id].func = HousekeepingFunc(id)
                        /\ jobs'[id].trigger.kind = "interval"]_vars

\* start() has just been called on a scheduler that was running: the deadline
\* job it would have installed for one period later is due now
C16_Witness ==
    /\ last.op = "start"
    /\ started
    /\ HK_DEADLINES \in DOMAIN jobs
    /\ jobs[HK_DEADLINES].next = now

----------------------------------------------------------------------------
(* Invocations that take time: the run loop submits a due job to the pool, *)
(* and the invocation ends later                                           *)

\* the executor refuses a job whose count of invocations in flight has
\* reached max_instances
MaxInstancesIgnored(r, id) == FALSE
MaxInstancesReached(r, id) == r[id] >= MAX_INSTANCES

\* the run loop submits due job id: an invocation begins
BeginRun(id) ==
    /\ CanFire(id)
    /\ ~MaxInstancesReached(running, id)
    /\ running' = [running EXCEPT ![id] = @ + 1]
    /\ jobs' = AfterFiring(jobs, id)
    /\ last' = LastFunc("begin", id, jobs[id].kwargs, "ok", jobs[id].func)
    /\ UNCHANGED <<tasks, now, started, sg, calls>>

\* the run loop finds the job still running: the run is skipped
SkipRun(id) ==
    /\ CanFire(id)
    /\ MaxInstancesReached(running, id)
    /\ jobs' = AfterFiring(jobs, id)
    /\ last' = LastFunc("skipped", id, jobs[id].kwargs, "ok", jobs[id].func)
    /\ UNCHANGED <<tasks, now, started, sg, calls, running>>

\* what the invocation of a housekeeping job did to the registry
RunBody(id, reg, n) ==
    IF id = HK_DEADLINES THEN _check_deadlines(reg, n)
    ELSE IF id = HK_PRIORITIES THEN _recalculate_priorities(reg, n)
    ELSE reg

\* an invocation ends, and its event reaches _on_job_executed
EndRun(id, r) ==
    /\ running[id] > 0
    /\ id \in Housekeeping => r = None
    /\ running' = [running EXCEPT ![id] = @ - 1]
    /\ tasks' = RunBody(id, tasks, now)
    /\ jobs' = _on_job_executed(jobs, id, r, now)
    /\ last' = Last("end", id, EmptyKwargs, "ok")
    /\ UNCHANGED <<now, started, sg, calls>>

\* the caller's callable here is f_kw, which takes any keyword
NextRun ==
    \/ Start
    \/ \E f \in {"f_kw"}, id \in UserJobs, kw \in BoundKwargs :
          ScheduleInterval(f, JobPeriod, id, kw)
    \/ \E f \in {"f_kw"}, at \in {now, now + Step}, id \in UserJobs, kw \in BoundKwargs :
          ScheduleOnce(f, at, id, kw)
    \/ \E id \in JobIds : BeginRun(id)
    \/ \E id \in JobIds : SkipRun(id)
    \/ \E id \in JobIds, r \in Returns : EndRun(id, r)
    \/ JobsTick

SpecRun == Init /\ [][NextRun]_vars

\* C13: no job id ever has two invocations in flight, however long an
\* invocation runs; two job ids may each have one.
C13_SingleFlight == \A id \in AllJobIds : running[id] <= 1

\* the deadline job is still running one period later and its due run has
\* just been skipped, while an invocation of j1 is in flight as well
C13_Witness ==
    /\ last.op = "skipped"
    /\ last.id = HK_DEADLINES
    /\ running[HK_DEADLINES] = 1
    /\ running["j1"] = 1

----------------------------------------------------------------------------
(* On-demand scheduling: suggest_schedule_for_task, schedule_task_by_proposal *)

NextProposal ==
    \/ \E id \in TaskIds, inp \in RegInputs : RegisterTask(id, inp)
    \/ \E id \in TaskIds : RemoveTask(id)
    \/ Start
    \/ \E t \in TaskIds, pr \in Proposals(now) : SuggestSchedule(t, pr)
    \/ \E t \in TaskIds, pr \in Proposals(now) : ScheduleByProposal(t, pr)
    \/ \E id \in AllJobIds : FireDeadlines(id)
    \/ \E id \in AllJobIds : FirePriorities(id)
    \/ \E id \in AllJobIds : FireNoop(id)
    \/ \E id \in AllJobIds : FireMissed(id)
    \/ JobsTick

SpecProposal == Init /\ [][NextProposal]_vars

\* the step is a call of suggest_schedule_for_task; of schedule_task_by_proposal
SuggestStep == last'.op = "suggest_schedule_for_task"
ByProposalStep == last'.op = "schedule_task_by_proposal"

\* C19: suggest_schedule_for_task does not raise and changes no task and no
\* job; for a task id that is not registered it returns None without calling
\* propose_schedule, and when propose_schedule raises it returns None.
C19_NoResultNoRaise ==
    [][SuggestStep =>
          /\ last'.outcome = "ok"
          /\ tasks' = tasks
          /\ jobs' = jobs
          /\ last'.id \notin DOMAIN tasks => (last'.ret = None /\ last'.ext = NoKey)
          /\ last'.ext \in Errors => last'.ret = None]_vars

\* suggest_schedule_for_task has just returned None for a registered task
\* because propose_schedule raised
C19_Witness ==
    /\ last.op = "suggest_schedule_for_task"
    /\ last.id \in DOMAIN tasks
    /\ last.ext = "e1"
    /\ last.ret = None

\* the one-off job the claim has schedule_task_by_proposal add for task t
\* with run time at
ClaimedJob(store, t, at) ==
    /\ ProposalJobId(t) \in DOMAIN store
    /\ store[ProposalJobId(t)].trigger.kind = "date"
    /\ store[ProposalJobId(t)].next = at
    /\ store[ProposalJobId(t)].func = Noop
    /\ store[ProposalJobId(t)].kwargs.task_id = t
\* the run time the claim gives: run_at, or 10 minutes from now when it is
\* absent or does not parse
ClaimedRunAt(kind, at, n) == IF kind \in {"dt", "iso"} THEN at ELSE n + 600
\* nothing is scheduled and the call returns None
NoResult == last'.ret = None /\ jobs' = jobs

\* C20 as stated: whenever the task exists and propose_schedule returns a
\* proposal without failing (read here as: anything but None), the one-off
\* job is scheduled and its id returned; else None is returned and nothing is
\* scheduled.
C20_ScheduledWheneverReturned ==
    [][ByProposalStep =>
          IF last'.id \in DOMAIN tasks /\ last'.ext = "ok" /\ last'.arg[1] # "none"
          THEN /\ last'.ret = ProposalJobId(last'.id)
               /\ ProposalJobId(last'.id) \in DOMAIN jobs'
          ELSE NoResult]_vars

\* C20 amended: the job is scheduled and its id returned whenever the task
\* exists and propose_schedule returns a mapping that is not empty; None is
\* returned and nothing scheduled when the task is missing, propose_schedule
\* raises, or it returns None or an empty mapping.
C20_ScheduledWhenNonEmpty ==
    [][ByProposalStep =>
          IF last'.id \in DOMAIN tasks /\ last'.ext = "ok" /\ last'.arg[1] = "dict"
          THEN /\ last'.ret = ProposalJobId(last'.id)
               /\ ClaimedJob(jobs', last'.id, ClaimedRunAt(last'.arg[2], last'.at, now))
               /\ \A other \in DOMAIN jobs \ {ProposalJobId(last'.id)} :
                     other \in DOMAIN jobs' /\ jobs'[other] = jobs[other]
          ELSE NoResult]_vars

\* schedule_task_by_proposal has just scheduled task:t1:once for 10 minutes
\* from now, the proposal's run_at being text that does not parse
C20_Witness ==
    /\ last.op = "schedule_task_by_proposal"
    /\ last.id = "t1"
    /\ last.arg = <<"dict", "bad">>
    /\ last.ret = ProposalJobId("t1")
    /\ ClaimedJob(jobs, "t1", now + 600)

----------------------------------------------------------------------------
(* The housekeeping methods called directly, on any registry content *)

\* deadlines as the caller may give them, around the clock's origin
DeadlineInputs ==
    {NoDeadline, BadDeadline, Iso(0 - HOUR), At(0 - HOUR), At(0), At(Step),
     At(HOUR), At(DAY), At(DAY + HOUR)}
Statuses == {"pending", "in_progress", "overdue", "done"}
PriorityInputs == -10 .. 10

\* registries: t1 is any task, t2 is missing or one of two plain tasks
WideTasks ==
    {Task(st, p, d, EmptyMetadata) : st \in Statuses, p \in PriorityInputs, d \in DeadlineInputs}
PlainTasks ==
    {Task("done", DEFAULT_PRIORITY, At(0 - HOUR), PriorMetadata),
     Task("pending", DEFAULT_PRIORITY, NoDeadline, EmptyMetadata)}
Registries ==
    {Put(NoTasks, "t1", a) : a \in WideTasks}
    \cup {Put(Put(NoTasks, "t1", a), "t2", b) : a \in WideTasks, b \in PlainTasks}

InitSweep ==
    /\ tasks \in Registries
    /\ now = 0
    /\ started = FALSE
    /\ jobs = NoJobs
    /\ last = Nothing
    /\ calls = 0
    /\ sg = Idle
    /\ running = NoneRunning

SweepDeadlines ==
    /\ tasks' = _check_deadlines(tasks, now)
    /\ last' = Last("_check_deadlines", NoKey, EmptyKwargs, "ok")
    /\ UNCHANGED <<now, started, jobs, calls, sg, running>>

SweepPriorities ==
    /\ tasks' = _recalculate_priorities(tasks, now)
    /\ last' = Last("_recalculate_priorities", NoKey, EmptyKwargs, "ok")
    /\ UNCHANGED <<now, started, jobs, calls, sg, running>>

SweepSuggestions(o) ==
    /\ tasks' = _generate_ai_suggestions(tasks, o)
    /\ last' = LastArg("_generate_ai_suggestions", NoKey, EmptyKwargs, "ok", ExtOf(o),
                     NoKey, NoKey,
                     <<o.kind>> \o (IF "t1" \in o.has THEN <<"t1">> ELSE <<>>)
                                \o (IF "t2" \in o.has THEN <<"t2">> ELSE <<>>),
                     NoTime)
    /\ UNCHANGED <<now, started, jobs, calls, sg, running>>

SweepTick ==
    /\ now < MaxSweepTicks * Step
    /\ now' = now + Step
    /\ last' = Last("tick", NoKey, EmptyKwargs, "ok")
    /\ UNCHANGED <<tasks, started, jobs, calls, sg, running>>

NextSweep ==
    \/ SweepDeadlines
    \/ SweepPriorities
    \/ \E o \in Outcomes : SweepSuggestions(o)
    \/ SweepTick

SpecSweep == InitSweep /\ [][NextSweep]_vars

----------------------------------------------------------------------------
(* The registry: register_task and remove_task between housekeeping runs *)

\* the task dicts the caller registers here: the ones above, and a task whose
\* deadline has passed
RegistryInputs ==
    RegInputs \cup {TaskInput({"id"}, NoKey, 0, At(0 - HOUR), EmptyMetadata)}
\* what suggest_next_actions does here
RegistryOutcomes == {o \in Outcomes : o.err \in {NoKey, "e1"} /\ o.has \in {{}, TaskIds}}

NextRegistry ==
    \/ \E id \in TaskIds, inp \in RegistryInputs : RegisterTask(id, inp)
    \/ \E id \in TaskIds : RemoveTask(id)
    \/ SweepDeadlines
    \/ SweepPriorities
    \/ \E o \in RegistryOutcomes : SweepSuggestions(o)
    \/ SweepTick

SpecRegistry == Init /\ [][NextRegistry]_vars

\* the step is a call of register_task
RegisterStep == last'.op = "register_task"

\* C17: register_task with a task dict that has no id raises ValueError and
\* leaves the registry as it was.
C17_NoIdRejected ==
    [][(RegisterStep /\ last'.id = NoKey) =>
          /\ last'.outcome = "ValueError"
          /\ tasks' = tasks]_vars

\* register_task has just rejected a task without id, and the registry still
\* holds a task
C17_Witness ==
    /\ last.op = "register_task"
    /\ last.id = NoKey
    /\ last.outcome = "ValueError"
    /\ DOMAIN tasks # {}

\* C18: register_task for an id the registry holds leaves one task under the
\* id, whose status and priority are the new task's or the defaults (pending,
\* 3), whose metadata is the new task's or empty, with no overdue_since and no
\* ai_suggestions of the old task; the other tasks are as before.
C18_OverwritesNotMerges ==
    [][(RegisterStep /\ last'.id \in DOMAIN tasks) =>
          /\ DOMAIN tasks' = DOMAIN tasks
          /\ tasks'[last'.id].status =
                (IF last'.arg[1] # NoKey THEN last'.arg[1] ELSE "pending")
          /\ tasks'[last'.id].priority =
                (IF last'.at # NoTime THEN last'.at ELSE 3)
          /\ tasks'[last'.id].metadata \in {EmptyMetadata, PriorMetadata}
          /\ tasks'[last'.id].metadata.overdue_since = NoTime
          /\ tasks'[last'.id].metadata.ai_suggestions = NoKey
          /\ \A other \in DOMAIN tasks \ {last'.id} : tasks'[other] = tasks[other]]_vars

\* register_task has just replaced a task that was overdue by one that is
\* pending, with the default priority and no overdue_since
C18_Witness ==
    /\ last.op = "register_task"
    /\ last.prior = "overdue"
    /\ last.id \in DOMAIN tasks
    /\ tasks[last.id].status = "pending"
    /\ tasks[last.id].priority = DEFAULT_PRIORITY
    /\ tasks[last.id].metadata = EmptyMetadata

----------------------------------------------------------------------------
(* Properties of one sweep, on any registry content *)

\* the deadline as a time, for a deadline that denotes one
IsTime(d) == d.kind \in {"dt", "iso"}

\* the step is one run of the method
DeadlineSweepStep == last'.op = "_check_deadlines"
PrioritySweepStep == last'.op = "_recalculate_priorities"
SuggestionSweepStep == last'.op = "_generate_ai_suggestions"

\* C2: after a deadline sweep at time now, every task that had deadline < now
\* and a status other than done or overdue has status overdue and
\* metadata.overdue_since = now.
C2_SweepMarksOverdue ==
    [][DeadlineSweepStep =>
        \A id \in DOMAIN tasks :
            (/\ IsTime(tasks[id].deadline)
             /\ tasks[id].deadline.at < now
             /\ tasks[id].status \notin {"done", "overdue"})
            => /\ id \in DOMAIN tasks'
               /\ tasks'[id].status = "overdue"
               /\ tasks'[id].metadata.overdue_since = now]_vars

\* a sweep has just marked a pending task whose deadline was an hour ago
C2_Witness ==
    /\ last.op = "_check_deadlines"
    /\ \E id \in DOMAIN tasks :
          /\ tasks[id].deadline = At(0 - HOUR)
          /\ tasks[id].status = "overdue"
          /\ tasks[id].metadata.overdue_since = now

\* C3 as stated: a non-done task with no deadline gets clamp(priority + 1, 1, 5).
C3_NoDeadlineRelaxes ==
    [][PrioritySweepStep =>
        \A id \in DOMAIN tasks :
            (tasks[id].status # "done" /\ tasks[id].deadline = NoDeadline)
            => tasks'[id].priority = Clamp(tasks[id].priority + FAR_BUMP)]_vars

\* C3 amended: a non-done task with no deadline gets clamp(priority, 1, 5):
\* the adjustment is 0, and priority 3 stays 3.
C3_NoDeadlineKeeps ==
    [][PrioritySweepStep =>
        \A id \in DOMAIN tasks :
            (tasks[id].status # "done" /\ tasks[id].deadline = NoDeadline)
            => tasks'[id].priority = Clamp(tasks[id].priority)]_vars

\* a recalculation has just run over a non-done task with no deadline, whose
\* priority is 3 afterwards: it was 3 before
C3_Witness ==
    /\ last.op = "_recalculate_priorities"
    /\ \E id \in DOMAIN tasks :
          /\ tasks[id].status # "done"
          /\ tasks[id].deadline = NoDeadline
          /\ tasks[id].priority = DEFAULT_PRIORITY

\* the adjustment the claim gives a deadline at time d, seen from time n
ClaimedAdjustment(d, n) ==
    IF d <= n THEN -2
    ELSE IF d - n < HOUR THEN -1
    ELSE IF d - n < DAY THEN 0
    ELSE 1

C5_PriorityInRange ==
    [][PrioritySweepStep =>
        \A id \in DOMAIN tasks' :
            tasks'[id].status # "done"
            => tasks'[id].priority \in MIN_PRIORITY .. MAX_PRIORITY]_vars

\* a recalculation has just run over a task kept at 1 although its deadline
\* is far (adjustment +1): it was below 1 before
C5_Witness ==
    /\ last.op = "_recalculate_priorities"
    /\ \E id \in DOMAIN tasks :
          /\ tasks[id].status # "done"
          /\ tasks[id].deadline = At(DAY + HOUR)
          /\ tasks[id].priority = MIN_PRIORITY

\* C7: when suggest_next_actions fails during a refresh, every non-done task
\* gets ai_suggestions_error = the failure, and no task's ai_suggestions is set.
C7_FailureIsRecorded ==
    [][(SuggestionSweepStep /\ last'.ext \in Errors) =>
        \A id \in DOMAIN tasks :
            /\ tasks[id].status # "done"
               => tasks'[id].metadata.ai_suggestions_error = last'.ext
            /\ tasks'[id].metadata.ai_suggestions = tasks[id].metadata.ai_suggestions]_vars

\* a refresh has just failed over a non-done task that holds the failure and
\* no suggestion
C7_Witness ==
    /\ last.op = "_generate_ai_suggestions"
    /\ last.ext = "e1"
    /\ \E id \in DOMAIN tasks :
          /\ tasks[id].status # "done"
          /\ tasks[id].metadata.ai_suggestions_error = "e1"
          /\ tasks[id].metadata.ai_suggestions = NoKey

----------------------------------------------------------------------------
(* Properties of the running scheduler *)

\* the step is the firing of a job; of a housekeeping job; one whose callable
\* returned; one whose callable raised
FireStep == last'.op = "fire"
HousekeepingStep == FireStep /\ last'.id \in Housekeeping
ReturnedStep == FireStep /\ last'.outcome = "ok"
RaisedStep == FireStep /\ last'.outcome # "ok"

\* the metadata keys task t holds
TimeKeys == {"overdue_since", "executed_at"}
TextKeys == {"ai_suggestions", "ai_suggestions_error"}
HeldKeys(t) ==
    {k \in TimeKeys : t.metadata[k] # NoTime} \cup {k \in TextKeys : t.metadata[k] # NoKey}

\* C1: no firing of a housekeeping job changes a done task's status or
\* priority, or the value of a metadata key the task already held.
C1_DoneUntouched ==
    [][HousekeepingStep =>
        \A id \in DOMAIN tasks :
            tasks[id].status = "done"
            => /\ id \in DOMAIN tasks'
               /\ tasks'[id].status = tasks[id].status
               /\ tasks'[id].priority = tasks[id].priority
               /\ \A k \in HeldKeys(tasks[id]) :
                     tasks'[id].metadata[k] = tasks[id].metadata[k]]_vars

\* the keys the two listeners write
ListenerKeys == {"last_run_at", "result", "last_error_at", "exception"}

\* C6: every firing invokes the callable with the arguments bound when the
\* job was scheduled: none of the keys the listeners record is passed.
C6_InvokedAsBound == last.op = "fire" => last.passed \cap ListenerKeys = {}

\* C9: when a job's callable raises, last_error_at and the exception are
\* recorded in that job's kwargs, the scheduler stays started, and no other
\* job changes.
C9_FailureRecorded ==
    [][RaisedStep =>
        /\ last'.id \in DOMAIN jobs'
        /\ jobs'[last'.id].kwargs.last_error_at = now
        /\ jobs'[last'.id].kwargs.exception = last'.outcome
        /\ started'
        /\ \A other \in DOMAIN jobs \ {last'.id} :
              other \in DOMAIN jobs' /\ jobs'[other] = jobs[other]]_vars

\* C10: after a successful invocation last_run_at is recorded for the job,
\* and a None return value is not stored under result.
C10_SuccessRecorded ==
    [][ReturnedStep =>
        /\ last'.id \in DOMAIN jobs'
        /\ jobs'[last'.id].kwargs.last_run_at = now
        /\ jobs'[last'.id].kwargs.result # None]_vars

----------------------------------------------------------------------------
(* _generate_ai_suggestions step by step, on a pool thread, while the owning *)
(* thread registers and removes tasks                                       *)

Size(reg) == Cardinality(DOMAIN reg)

\* iter(self.tasks.values()) remembers the dict's size
RefreshBegin ==
    /\ sg.pc = "idle"
    /\ sg' = Refresh("collect", DOMAIN tasks, Size(tasks), {}, DOMAIN tasks, NoOutcome, NoKey)
    /\ last' = Last("refresh_begin", NoKey, EmptyKwargs, "ok")
    /\ UNCHANGED <<tasks, now, started, jobs, calls, running>>

\* next() on a dict iterator: RuntimeError when the size is no longer the one
\* it remembers, StopIteration at the end, else the next entry
SizeChanged(r, reg) == Size(reg) # r.used
Exhausted(r, reg) == r.left \cap DOMAIN reg = {}

\* the list comprehension of the try block; its RuntimeError is caught by the
\* method's except, whose loop starts a new iterator
CollectNext ==
    /\ sg.pc = "collect"
    /\ IF SizeChanged(sg, tasks)
       THEN sg' = [sg EXCEPT !.pc = "handle", !.err = "RuntimeError",
                             !.left = DOMAIN tasks, !.used = Size(tasks)]
       ELSE IF Exhausted(sg, tasks)
       THEN sg' = [sg EXCEPT !.pc = "call", !.left = {}]
       ELSE \E id \in sg.left \cap DOMAIN tasks :
               sg' = [sg EXCEPT !.left = @ \ {id},
                                !.pending = IF tasks[id].status # "done"
                                            THEN @ \cup {id} ELSE @]
    /\ last' = Last("refresh_collect", NoKey, EmptyKwargs, "ok")
    /\ UNCHANGED <<tasks, now, started, jobs, calls, running>>

\* suggestions = self.ai_engine.suggest_next_actions(pending_tasks)
CallCapability(o) ==
    /\ sg.pc = "call"
    /\ IF o.kind = "raise"
       THEN sg' = [sg EXCEPT !.pc = "handle", !.err = o.err,
                             !.left = DOMAIN tasks, !.used = Size(tasks)]
       ELSE sg' = [sg EXCEPT !.pc = "attach", !.outcome = o, !.left = sg.pending]
    /\ last' = LastExt("refresh_call", NoKey, EmptyKwargs, "ok", ExtOf(o))
    /\ UNCHANGED <<tasks, now, started, jobs, calls, running>>

\* for t in pending_tasks: a list, which no one else writes
AttachNext ==
    /\ sg.pc = "attach"
    /\ IF sg.left = {}
       THEN /\ sg' = [sg EXCEPT !.pc = "returned"]
            /\ UNCHANGED tasks
       ELSE \E id \in sg.left :
               /\ tasks' = [tasks EXCEPT ![id] = Attach(@, PayloadFor(sg.outcome, id))]
               /\ sg' = [sg EXCEPT !.left = @ \ {id}]
    /\ last' = Last("refresh_attach", NoKey, EmptyKwargs, "ok")
    /\ UNCHANGED <<now, started, jobs, calls, running>>

\* the except handler's loop over self.tasks.values(): nothing catches what
\* its iterator raises
HandleNext ==
    /\ sg.pc = "handle"
    /\ IF SizeChanged(sg, tasks)
       THEN /\ sg' = [sg EXCEPT !.pc = "raised"]
            /\ UNCHANGED tasks
       ELSE IF Exhausted(sg, tasks)
       THEN /\ sg' = [sg EXCEPT !.pc = "returned"]
            /\ UNCHANGED tasks
       ELSE \E id \in sg.left \cap DOMAIN tasks :
               /\ tasks' = [tasks EXCEPT ![id] = AttachError(@, sg.err)]
               /\ sg' = [sg EXCEPT !.left = @ \ {id}]
    /\ last' = Last("refresh_handle", NoKey, EmptyKwargs, "ok")
    /\ UNCHANGED <<now, started, jobs, calls, running>>

NextConc ==
    \/ \E id \in TaskIds, inp \in RegInputs : RegisterTask(id, inp)
    \/ \E id \in TaskIds : RemoveTask(id)
    \/ \E id \in TaskIds : MarkDone(id)
    \/ RefreshBegin
    \/ CollectNext
    \/ \E o \in Outcomes : CallCapability(o)
    \/ AttachNext
    \/ HandleNext

SpecConc == Init /\ [][NextConc]_vars

----------------------------------------------------------------------------
(* _check_deadlines step by step, on a pool thread, while the owning thread *)
(* registers and removes tasks                                              *)

\* for t in self.tasks.values(): the iterator remembers the dict's size
DeadlinesBegin ==
    /\ sg.pc = "idle"
    /\ sg' = Refresh("sweep", DOMAIN tasks, Size(tasks), {}, DOMAIN tasks, NoOutcome, NoKey)
    /\ last' = Last("deadlines_begin", NoKey, EmptyKwargs, "ok")
    /\ UNCHANGED <<tasks, now, started, jobs, calls, running>>

\* one turn of the loop: the iterator's next(), whose RuntimeError nothing in
\* the method catches, then the loop body on the task it gave
DeadlinesNext ==
    /\ sg.pc = "sweep"
    /\ IF SizeChanged(sg, tasks)
       THEN /\ sg' = [sg EXCEPT !.pc = "raised", !.err = "RuntimeError"]
            /\ UNCHANGED tasks
       ELSE IF Exhausted(sg, tasks)
       THEN /\ sg' = [sg EXCEPT !.pc = "returned"]
            /\ UNCHANGED tasks
       ELSE \E id \in sg.left \cap DOMAIN tasks :
               /\ tasks' = [tasks EXCEPT ![id] = CheckDeadline(@, now)]
               /\ sg' = [sg EXCEPT !.left = @ \ {id}]
    /\ last' = Last("deadlines_next", NoKey, EmptyKwargs, "ok")
    /\ UNCHANGED <<now, started, jobs, calls, running>>

NextConcSweep ==
    \/ \E id \in TaskIds, inp \in RegistryInputs : RegisterTask(id, inp)
    \/ \E id \in TaskIds : RemoveTask(id)
    \/ DeadlinesBegin
    \/ DeadlinesNext

SpecConcSweep == Init /\ [][NextConcSweep]_vars

\* C15: the deadline sweep never raises, whatever the owning thread registers
\* or removes meanwhile; when it returns, every task that was registered
\* throughout has been processed: one whose deadline had passed and that was
\* neither done nor overdue is overdue.
C15_SweepTolerates ==
    /\ sg.pc # "raised"
    /\ sg.pc = "returned" =>
          \A id \in sg.base \cap DOMAIN tasks : tasks[id] = CheckDeadline(tasks[id], now)

\* C8: the refresh never raises, whatever the registry holds, whatever the
\* capability does and whatever the owning thread registers or removes
\* meanwhile; when it returns, every non-done task that was registered
\* throughout holds ai_suggestions or ai_suggestions_error.
C8_RefreshNeverRaises ==
    /\ sg.pc # "raised"
    /\ sg.pc = "returned" =>
          \A id \in sg.base \cap DOMAIN tasks :
              tasks[id].status # "done"
              => \/ tasks[id].metadata.ai_suggestions # NoKey
                 \/ tasks[id].metadata.ai_suggestions_error # NoKey

----------------------------------------------------------------------------
(* The registry's priorities between calls *)

\* C21: after any sequence of register_task, remove_task and housekeeping
\* runs, every task in the registry has a priority in 1..5.
C21_PriorityAlwaysInRange ==
    \A id \in DOMAIN tasks : tasks[id].priority \in MIN_PRIORITY .. MAX_PRIORITY

----------------------------------------------------------------------------
(* Recalculation cycles: the priorities job firing again and again on tasks
   whose priority is in 1..5 *)

\* registries whose priorities are in range: t1 is any such task, t2 is
\* missing or one of two plain tasks
RangedTasks == {t \in WideTasks : t.priority \in MIN_PRIORITY .. MAX_PRIORITY}
RangedRegistries ==
    {Put(NoTasks, "t1", a) : a \in RangedTasks}
    \cup {Put(Put(NoTasks, "t1", a), "t2", b) : a \in RangedTasks, b \in PlainTasks}

InitCycles ==
    /\ tasks \in RangedRegistries
    /\ now = 0
    /\ started = FALSE
    /\ jobs = NoJobs
    /\ last = Nothing
    /\ calls = 0
    /\ sg = Idle
    /\ running = NoneRunning

\* one firing of the priorities job; calls counts the cycles so far
Cycle ==
    /\ calls < MaxCycles
    /\ tasks' = _recalculate_priorities(tasks, now)
    /\ last' = Last("_recalculate_priorities", NoKey, EmptyKwargs, "ok")
    /\ calls' = calls + 1
    /\ UNCHANGED <<now, started, jobs, sg, running>>

NextCycles ==
    \/ Cycle
    \/ SweepTick

SpecCycles == InitCycles /\ [][NextCycles]_vars

\* the adjustment of a task's deadline, 0 for a task without a usable one
AdjustmentOf(t, n) == IF IsTime(t.deadline) THEN ClaimedAdjustment(t.deadline.at, n) ELSE 0

\* the priority is at the bound the adjustment a pushes toward
AtRest(p, a) ==
    \/ a = 0
    \/ a < 0 /\ p = MIN_PRIORITY
    \/ a > 0 /\ p = MAX_PRIORITY

\* the step is the second of two recalculations with no time between them
SecondRunStep == last.op = "_recalculate_priorities" /\ PrioritySweepStep

\* C22 as stated: run twice in a row with no time between the runs, on tasks
\* whose priority was in 1..5, the recalculation leaves every priority after
\* the second run what it was after the first.
C22_RecalculationIdempotent ==
    [][SecondRunStep =>
          \A id \in DOMAIN tasks : tasks'[id].priority = tasks[id].priority]_vars

\* C22 as the code has it: the second run leaves a non-done task's priority
\* what it was after the first exactly when the task's adjustment is 0 or the
\* first run left the priority at the bound the adjustment pushes toward (1
\* for a negative adjustment, 5 for a positive one); otherwise the second run
\* moves it by the adjustment again. A done task keeps its priority.
C22_IdempotentAtRest ==
    [][SecondRunStep =>
          \A id \in DOMAIN tasks :
              IF tasks[id].status = "done"
              THEN tasks'[id].priority = tasks[id].priority
              ELSE /\ (tasks'[id].priority = tasks[id].priority)
                         <=> AtRest(tasks[id].priority, AdjustmentOf(tasks[id], now))
                   /\ tasks'[id].priority =
                         Clamp(tasks[id].priority + AdjustmentOf(tasks[id], now))]_vars

\* two recalculations have run at time 0, with no tick between them, over a
\* non-done task whose deadline has passed: it is at 1
C22_Witness ==
    /\ now = 0
    /\ calls = 2
    /\ last.op = "_recalculate_priorities"
    /\ \E id \in DOMAIN tasks :
          /\ tasks[id].status # "done"
          /\ tasks[id].deadline = At(0 - HOUR)
          /\ tasks[id].priority = MIN_PRIORITY

\* the step is one recalculation cycle
CycleStep == PrioritySweepStep /\ calls' = calls + 1

----------------------------------------------------------------------------
(* The suggestion refresh when the capability returns a mapping *)

\* the step is a refresh whose call returned a mapping; the ids the mapping
\* has follow in the record
MappingStep ==
    /\ SuggestionSweepStep
    /\ Len(last'.arg) > 0
    /\ last'.arg[1] = "dict"

\* the mapping's entry for id: the suggestion, or None when it has none
ClaimedEntry(arg, id) ==
    IF \E i \in 2 .. Len(arg) : arg[i] = id THEN id ELSE None

\* C23: when suggest_next_actions returns a mapping from task id to
\* suggestion, the refresh sets ai_suggestions of every non-done task to the
\* mapping's entry for the task's id, writes ai_suggestions_error on no task
\* and leaves every done task as it was.
C23_MappingAttached ==
    [][MappingStep =>
          /\ DOMAIN tasks' = DOMAIN tasks
          /\ \A id \in DOMAIN tasks :
                IF tasks[id].status # "done"
                THEN tasks'[id] =
                        [tasks[id] EXCEPT !.metadata.ai_suggestions = ClaimedEntry(last'.arg, id)]
                ELSE tasks'[id] = tasks[id]]_vars

\* a refresh has just stored t1's entry of a mapping that has entries for t1
\* and t2; t2 is done and holds no suggestion
C23_Witness ==
    /\ last.op = "_generate_ai_suggestions"
    /\ last.arg = <<"dict", "t1", "t2">>
    /\ DOMAIN tasks = {"t1", "t2"}
    /\ tasks["t1"].status # "done"
    /\ tasks["t1"].metadata.ai_suggestions = "t1"
    /\ tasks["t2"].status = "done"
    /\ tasks["t2"].metadata.ai_suggestions = NoKey

----------------------------------------------------------------------------
(* What the deadline sweep leaves alone *)

\* C24: a deadline sweep leaves every task that has no deadline, or whose
\* status is done or overdue, as it was, status and metadata included, so an
\* overdue task keeps the overdue_since of the sweep that marked it; and no
\* sweep changes a priority.
C24_SweepFrame ==
    [][DeadlineSweepStep =>
          /\ DOMAIN tasks' = DOMAIN tasks
          /\ \A id \in DOMAIN tasks :
                /\ (\/ tasks[id].deadline = NoDeadline
                    \/ tasks[id].status \in {"done", "overdue"})
                   => tasks'[id] = tasks[id]
                /\ tasks'[id].priority = tasks[id].priority]_vars

\* a sweep has just run over a task that an earlier sweep had marked overdue:
\* its overdue_since is that sweep's time, before now
C24_Witness ==
    /\ last.op = "_check_deadlines"
    /\ \E id \in DOMAIN tasks :
          /\ tasks[id].status = "overdue"
          /\ tasks[id].metadata.overdue_since # NoTime
          /\ tasks[id].metadata.overdue_since < now

----------------------------------------------------------------------------
(* The run loop left to itself: the housekeeping jobs firing tick after tick,
   under fair scheduling, beside a caller that registers, removes and
   completes tasks *)

\* the deadline sweep raises RuntimeError: the caller removes a task, or
\* registers one under a new id, while the loop is over self.tasks.values();
\* the tasks in done have been through the loop body by then
FireDeadlinesRaises(id, done) ==
    /\ CanFire(id)
    /\ jobs[id].func = "_check_deadlines"
    /\ CallableAccepts(jobs[id].func, jobs[id].kwargs)
    /\ Called
    /\ LET swept == [k \in DOMAIN tasks |->
                        IF k \in done THEN CheckDeadline(tasks[k], now) ELSE tasks[k]]
       IN  tasks' \in {Pop(swept, t) : t \in DOMAIN tasks}
                      \cup {Put(swept, t, Normalize(inp)) :
                               t \in TaskIds \ DOMAIN tasks,
                               inp \in {i \in RegistryInputs : "id" \in i.has}}
    /\ jobs' = _on_job_error(AfterFiring(jobs, id), id, "RuntimeError", now)
    /\ last' = LastFunc("fire", id, jobs[id].kwargs, "RuntimeError", jobs[id].func)
    /\ UNCHANGED <<now, started, sg, running>>

NextLive ==
    \/ \E id \in TaskIds, inp \in RegistryInputs : RegisterTask(id, inp)
    \/ \E id \in TaskIds : RemoveTask(id)
    \/ \E id \in TaskIds : MarkDone(id)
    \/ Start
    \/ \E id \in Housekeeping : FireDeadlines(id)
    \/ \E id \in Housekeeping, done \in SUBSET DOMAIN tasks : FireDeadlinesRaises(id, done)
    \/ \E id \in Housekeeping : FirePriorities(id)
    \/ JobsTick

\* the scheduler's thread runs what is due, and time passes
SpecLive ==
    /\ Init
    /\ [][NextLive]_vars
    /\ WF_vars(\E id \in Housekeeping : FireDeadlines(id))
    /\ WF_vars(\E id \in Housekeeping : FirePriorities(id))
    /\ WF_vars(JobsTick)

\* the scheduler runs and task id is pending or in progress past its deadline
PastDue(id) ==
    /\ started
    /\ id \in DOMAIN tasks
    /\ tasks[id].status \in {"pending", "in_progress"}
    /\ IsTime(tasks[id].deadline)
    /\ tasks[id].deadline.at < now

\* task id is overdue, or the caller has removed it, completed it, or
\* registered another task under the id whose deadline has not passed
Settled(id) ==
    \/ id \notin DOMAIN tasks
    \/ tasks[id].status \in {"overdue", "done"}
    \/ ~IsTime(tasks[id].deadline)
    \/ tasks[id].deadline.at >= now

\* C26: while the scheduler runs, a task that is pending or in progress past
\* its deadline, whenever it was registered, is eventually overdue unless the
\* caller removes, completes or replaces it: the deadline job keeps sweeping
\* on every tick after the first.
C26_EventuallyOverdue ==
    \A id \in TaskIds : PastDue(id) ~> Settled(id)

\* a task has been marked overdue by a sweep at the third tick or later, which
\* is not the deadline job's first run
C26_Witness ==
    /\ started
    /\ \E id \in DOMAIN tasks :
          /\ tasks[id].status = "overdue"
          /\ tasks[id].metadata.overdue_since >= 3 * Step

====
